---- MODULE Spec2Model ----
(***************************************************************************)
(* A model of package gocovparser (core.go): the identity extraction done  *)
(* by parseLineRegex, the record builder Parse, and the two aggregators    *)
(* GroupCoverage and GetTotalCoverageBreakdown.                            *)
(*                                                                         *)
(* Strings are sequences of one-character strings, so that matching,       *)
(* slicing and concatenation are computed and not assumed.  A ratio        *)
(* float64(c) / float64(s) is the pair <<c, s>>; two ratios are compared   *)
(* by cross multiplication.  The literal 0.0 is <<0, 1>>.                  *)
(***************************************************************************)
EXTENDS Integers, Sequences, FiniteSets, TLC

VARIABLES
    pc,          \* position of the running call
    ident,       \* SpecExtract: the file identifier given to the extractor
    extracted,   \* SpecExtract: what the extractor returned
    profiles,    \* SpecParse: what cover.ParseProfilesFromReader returned
    parserErr,   \* SpecParse: whether cover.ParseProfilesFromReader failed
    idx,         \* SpecParse: number of profiles the loop has consumed
    coverage,    \* SpecParse: the local slice `coverage`
    parsed,      \* SpecParse: the pair Parse returns
    items,       \* SpecAgg: argument `items`
    groups,      \* SpecAgg: argument `groups`
    grouped,     \* SpecAgg: the pair GroupCoverage returns
    breakdown    \* SpecAgg: the pair GetTotalCoverageBreakdown returns

vars == <<pc, ident, extracted, profiles, parserErr, idx, coverage, parsed,
          items, groups, grouped, breakdown>>

extractVars == <<ident, extracted>>
parseVars == <<profiles, parserErr, idx, coverage, parsed>>
aggVars == <<items, groups, grouped, breakdown>>

----------------------------------------------------------------------------
(* Bounds of the model.                                                    *)

\* longest file identifier given to the extractor
MaxLen == 7
\* most profiles the external parser returns in one Parse call
MaxProfiles == 2
\* most specifications in one GroupCoverage call
MaxGroups == 2
\* size of an aggregator's input: its records plus all their blocks
MaxSize == 4

----------------------------------------------------------------------------
(* Strings.                                                                *)

\* The characters of a file identifier.  cover.ParseProfilesFromReader
\* reads its input line by line, so an identifier holds no line break.
Chars == {"a", "b", "/"}

Strings(n) == UNION {[1..k -> Chars] : k \in 0..n}

\* s[i:j] of Go, on offsets 0..Len(s)
Slice(s, i, j) == SubSeq(s, i + 1, j)

----------------------------------------------------------------------------
(* parseLineRegex and regexp's FindStringSubmatch.                         *)

hostPosition == 1
ownerPosition == 2
repoPosition == 3

pathPositionOffByOne == repoPosition

pathPosition == 4

\* `[^\/]*` from offset i: the offsets it can stop at
NotSlashStar(s, i) ==
    {j \in i..Len(s) : \A k \in (i + 1)..j : s[k] # "/"}

\* `\/` at offset i
Slash(s, i) == i < Len(s) /\ s[i + 1] = "/"

\* `.*` from offset i: the offsets it can stop at (`.` is any character but
\* a line break)
DotStar(s, i) ==
    {j \in i..Len(s) : \A k \in (i + 1)..j : s[k] # "\n"}

\* `(?P<host>[^\/]*)\/` and `(?P<owner>[^\/]*)\/` from offset i: the offsets
\* of the closing slash
Segment(s, i) == {j \in NotSlashStar(s, i) : Slash(s, j)}

RepoGroupRequired(s, i) ==
    {[hasRepo |-> TRUE, repoEnd |-> j, pathStart |-> j + 1] : j \in Segment(s, i)}

\* `(?:(?P<repo>[^\/]*)\/)?` from offset i: taken, or skipped
RepoGroup(s, i) ==
    {[hasRepo |-> TRUE, repoEnd |-> j, pathStart |-> j + 1] : j \in Segment(s, i)}
        \cup {[hasRepo |-> FALSE, repoEnd |-> i, pathStart |-> i]}

\* every way the whole pattern matches somewhere in s (it is not anchored)
Matches(s) ==
    UNION {UNION {UNION {UNION {
        {[start |-> p, hostEnd |-> h, ownerEnd |-> o, hasRepo |-> g.hasRepo,
          repoEnd |-> g.repoEnd, pathStart |-> g.pathStart, end |-> e] :
            e \in DotStar(s, g.pathStart)}
        : g \in RepoGroup(s, o + 1)}
        : o \in Segment(s, h + 1)}
        : h \in Segment(s, p)}
        : p \in 0..Len(s)}

OptionalLazy(m) == IF m.hasRepo THEN 0 ELSE 1

\* a greedy `?` tries its operand before it tries to skip it
OptionalGreedy(m) == IF m.hasRepo THEN 1 ELSE 0

\* the order in which the matcher tries the alternatives: the leftmost
\* start first, then each greedy operator's longest choice first
Priority(m) ==
    <<0 - m.start, m.hostEnd, m.ownerEnd, OptionalGreedy(m), m.repoEnd, m.end>>

Before(k1, k2) ==
    \E i \in 1..Len(k1) :
        /\ k1[i] > k2[i]
        /\ \A j \in 1..(i - 1) : k1[j] = k2[j]

\* a nil slice
Nil == <<>>

\* FindStringSubmatch: nil when nothing matches, else the whole match at 0
\* and the text of group n at n ("" for a group that took no part)
FindStringSubmatch(s) ==
    LET ms == Matches(s)
    IN  IF ms = {} THEN Nil
        ELSE LET m == CHOOSE x \in ms :
                         \A y \in ms : y = x \/ Before(Priority(x), Priority(y))
             IN  [n \in 0..4 |->
                    CASE n = 0 -> Slice(s, m.start, m.end)
                      [] n = 1 -> Slice(s, m.start, m.hostEnd)
                      [] n = 2 -> Slice(s, m.hostEnd + 1, m.ownerEnd)
                      [] n = 3 -> IF m.hasRepo
                                  THEN Slice(s, m.ownerEnd + 1, m.repoEnd)
                                  ELSE <<>>
                      [] n = 4 -> Slice(s, m.pathStart, m.end)]

\* len(match)
SliceLen(x) == Cardinality(DOMAIN x)

----------------------------------------------------------------------------
(* Data.                                                                   *)

\* cover.ProfileBlock, of which the package reads these four fields
Block(startLine, endLine, numStmt, count) ==
    [StartLine |-> startLine, EndLine |-> endLine, NumStmt |-> numStmt,
     Count |-> count]

\* type Coverage
Coverage(fileName, host, owner, repo, path, blocks) ==
    [FileName |-> fileName, Host |-> host, Owner |-> owner, Repo |-> repo,
     Path |-> path, Blocks |-> blocks]

\* a value of type error
ErrInvalidCoverageData == "InvalidCoverageData"
NoError == "nil"

\* a (slice, error) pair; a nil slice is told from an empty one
Returned(isNil, list, err) == [isNil |-> isNil, list |-> list, err |-> err]

\* nothing returned yet
Pending == "pending"

----------------------------------------------------------------------------
(* Parse.                                                                  *)

\* the loop body's match, test and four index expressions
Extract(fileName) ==
    LET match == FindStringSubmatch(fileName)
    IN  IF SliceLen(match) = 0
        THEN [err |-> ErrInvalidCoverageData, host |-> <<>>, owner |-> <<>>,
              repo |-> <<>>, path |-> <<>>]
        ELSE [err |-> NoError, host |-> match[hostPosition],
              owner |-> match[ownerPosition], repo |-> match[repoPosition],
              path |-> match[pathPosition]]

\* the record the loop body builds for a profile whose name matched
Record(profile) ==
    LET e == Extract(profile.FileName)
    IN  Coverage(profile.FileName, e.host, e.owner, e.repo, e.path, profile.Blocks)

PrependCoverage(cov, rec) == <<rec>> \o cov

\* coverage = append(coverage, Coverage{...})
AppendCoverage(cov, rec) == Append(cov, rec)

ReturnPartial(cov) == Returned(FALSE, cov, ErrInvalidCoverageData)

\* return nil, errors.Wrapf(ErrInvalidCoverageData, ...) out of the loop,
\* whatever `coverage` holds by then
ReturnInvalid(cov) == Returned(TRUE, Nil, ErrInvalidCoverageData)

\* Parse up to the loop: the external parser's failure, its empty result,
\* or the allocation of `coverage`
ParseProfiles ==
    /\ pc = "parse"
    /\ IF parserErr
       THEN /\ parsed' = Returned(TRUE, Nil, ErrInvalidCoverageData)
            /\ pc' = "parsed"
       ELSE IF Len(profiles) = 0
       THEN /\ parsed' = Returned(FALSE, <<>>, NoError)
            /\ pc' = "parsed"
       ELSE /\ parsed' = parsed
            /\ pc' = "loop"
    /\ coverage' = <<>>
    /\ idx' = 0
    /\ UNCHANGED <<profiles, parserErr, extractVars, aggVars>>

\* one iteration of `for _, profile := range profiles`
ParseLoop ==
    /\ pc = "loop"
    /\ idx < Len(profiles)
    /\ LET profile == profiles[idx + 1]
       IN  IF Extract(profile.FileName).err # NoError
           THEN /\ parsed' = ReturnInvalid(coverage)
                /\ pc' = "parsed"
                /\ UNCHANGED <<coverage, idx>>
           ELSE /\ coverage' = AppendCoverage(coverage, Record(profile))
                /\ idx' = idx + 1
                /\ UNCHANGED <<parsed, pc>>
    /\ UNCHANGED <<profiles, parserErr, extractVars, aggVars>>

\* return coverage, nil
ParseReturn ==
    /\ pc = "loop"
    /\ idx = Len(profiles)
    /\ parsed' = Returned(FALSE, coverage, NoError)
    /\ pc' = "parsed"
    /\ UNCHANGED <<profiles, parserErr, idx, coverage, extractVars, aggVars>>

----------------------------------------------------------------------------
(* The extractor on its own.                                               *)

ExtractIdentity ==
    /\ pc = "extract"
    /\ extracted' = Extract(ident)
    /\ pc' = "extracted"
    /\ UNCHANGED <<ident, parseVars, aggVars>>

----------------------------------------------------------------------------
(* Maps and ratios.                                                        *)

\* make(map[...]...)
EmptyMap == <<>>

\* m[k], the zero value when k is absent
Get(m, k) == IF k \in DOMAIN m THEN m[k] ELSE 0

\* m[k] = v
Put(m, k, v) == [x \in DOMAIN m \cup {k} |-> IF x = k THEN v ELSE m[x]]

\* the literal 0.0
Zero == <<0, 1>>

\* float64(c) / float64(s), s # 0
Div(c, s) == <<c, s>>

----------------------------------------------------------------------------
(* GroupCoverage.                                                          *)

\* group.KeyFunc(fileName): the caller's function, here one of two
KeyFunc(kf, fileName) ==
    CASE kf = "host" -> FindStringSubmatch(fileName)[hostPosition]
      [] kf = "owner" -> FindStringSubmatch(fileName)[ownerPosition]

CoveredAlways(b) == b.Count >= 0

\* if b.Count > 0 { // is covered
IsCovered(b) == b.Count > 0

CoveredHits(b) == b.Count

\* what a covered block adds to covered / TotalCoveredStatements
CoveredStmt(b) == b.NumStmt

AccShared(group) == "shared"

\* the index of a group's accumulators in `statements` and `covered`
Acc(group) == group.Name

\* the group's maps, made where not found
MakeMaps(st, group) ==
    [result |-> IF group.Name \in DOMAIN st.result THEN st.result
                ELSE Put(st.result, group.Name, EmptyMap),
     statements |-> IF Acc(group) \in DOMAIN st.statements THEN st.statements
                    ELSE Put(st.statements, Acc(group), EmptyMap),
     covered |-> IF Acc(group) \in DOMAIN st.covered THEN st.covered
                 ELSE Put(st.covered, Acc(group), EmptyMap)]

RECURSIVE BlocksLoop(_, _, _, _, _)
\* for _, b := range cov.Blocks, from the j-th block on
BlocksLoop(st, acc, key, blocks, j) ==
    IF j > Len(blocks) THEN st
    ELSE LET b == blocks[j]
             s1 == [st EXCEPT !.statements[acc] =
                        Put(@, key, Get(@, key) + b.NumStmt)]
             s2 == IF IsCovered(b)
                   THEN [s1 EXCEPT !.covered[acc] =
                            Put(@, key, Get(@, key) + CoveredStmt(b))]
                   ELSE s1
         IN  BlocksLoop(s2, acc, key, blocks, j + 1)

RECURSIVE ItemsLoop(_, _, _, _)
\* for _, cov := range items, from the i-th record on
ItemsLoop(st, group, its, i) ==
    IF i > Len(its) THEN st
    ELSE LET key == KeyFunc(group.KeyFunc, its[i].FileName)
         IN  ItemsLoop(BlocksLoop(st, Acc(group), key, its[i].Blocks, 1),
                       group, its, i + 1)

\* for key := range statements[group.Name]: every key of the map, each
\* assigned once, so the order of the iteration does not show
RatiosLoop(st, group) ==
    LET stmtsOf == st.statements[Acc(group)]
        covOf == st.covered[Acc(group)]
        old == st.result[group.Name]
    IN  [st EXCEPT !.result[group.Name] =
            [key \in DOMAIN old \cup DOMAIN stmtsOf |->
                IF key \in DOMAIN stmtsOf
                THEN IF stmtsOf[key] = 0 THEN Zero
                     ELSE Div(Get(covOf, key), stmtsOf[key])
                ELSE old[key]]]

RECURSIVE GroupsLoop(_, _, _, _)
\* for _, group := range groups, from the g-th specification on
GroupsLoop(st, its, gs, g) ==
    IF g > Len(gs) THEN st
    ELSE GroupsLoop(RatiosLoop(ItemsLoop(MakeMaps(st, gs[g]), gs[g], its, 1), gs[g]),
                    its, gs, g + 1)

\* GroupCoverage(items, groups...): the pair it returns
GroupCoverage(its, gs) ==
    LET st == GroupsLoop([result |-> EmptyMap, statements |-> EmptyMap,
                          covered |-> EmptyMap], its, gs, 1)
    IN  [result |-> st.result, err |-> NoError]

----------------------------------------------------------------------------
(* GetTotalCoverageBreakdown.                                              *)

LinesExclusive(b) == b.EndLine - b.StartLine

\* linesInBlock := b.EndLine - b.StartLine + 1
LinesInBlock(b) == b.EndLine - b.StartLine + 1

RECURSIVE TotalBlocksLoop(_, _, _)
\* for _, b := range cov.Blocks, from the j-th block on
TotalBlocksLoop(r, blocks, j) ==
    IF j > Len(blocks) THEN r
    ELSE LET b == blocks[j]
             r1 == [r EXCEPT !.TotalLines = @ + LinesInBlock(b)]
             r2 == IF IsCovered(b)
                   THEN [r1 EXCEPT !.TotalCoveredLines = @ + LinesInBlock(b)]
                   ELSE r1
             r3 == [r2 EXCEPT !.TotalStatements = @ + b.NumStmt]
             r4 == IF IsCovered(b)
                   THEN [r3 EXCEPT !.TotalCoveredStatements = @ + CoveredStmt(b)]
                   ELSE r3
         IN  TotalBlocksLoop(r4, blocks, j + 1)

RECURSIVE TotalItemsLoop(_, _, _)
\* for _, cov := range items, from the i-th record on
TotalItemsLoop(r, its, i) ==
    IF i > Len(its) THEN r
    ELSE TotalItemsLoop(TotalBlocksLoop(r, its[i].Blocks, 1), its, i + 1)

\* the final percentages
Percentages(r) ==
    LET r1 == IF r.TotalLines # 0
              THEN [r EXCEPT !.PercentByLines =
                        Div(r.TotalCoveredLines, r.TotalLines)]
              ELSE r
    IN  IF r1.TotalStatements # 0
        THEN [r1 EXCEPT !.PercentByStatements =
                  Div(r1.TotalCoveredStatements, r1.TotalStatements)]
        ELSE r1

\* GetTotalCoverageBreakdown(items): the pair it returns
GetTotalCoverageBreakdown(its) ==
    LET zero == [TotalCoveredLines |-> 0, TotalLines |-> 0, PercentByLines |-> Zero,
                 TotalCoveredStatements |-> 0, TotalStatements |-> 0,
                 PercentByStatements |-> Zero]
    IN  [result |-> Percentages(TotalItemsLoop(zero, its, 1)), err |-> NoError]

----------------------------------------------------------------------------
(* The aggregators' calls.                                                 *)

GroupCoverageCall ==
    /\ pc = "group"
    /\ grouped' = GroupCoverage(items, groups)
    /\ pc' = "grouped"
    /\ UNCHANGED <<items, groups, breakdown, extractVars, parseVars>>

GetTotalCoverageBreakdownCall ==
    /\ pc = "total"
    /\ breakdown' = GetTotalCoverageBreakdown(items)
    /\ pc' = "totalled"
    /\ UNCHANGED <<items, groups, grouped, extractVars, parseVars>>

----------------------------------------------------------------------------
(* Inputs.                                                                 *)

\* the file names of the profiles Parse is given: four segments, three
\* segments, an empty third segment, two segments, one segment
ProfileNames ==
    {<<"a", "/", "b", "/", "a", "/", "b">>, <<"a", "/", "b", "/", "a">>,
     <<"a", "/", "b", "/", "/">>, <<"a", "/", "b">>, <<"a">>}

\* the blocks of a profile Parse is given (the external parser returns no
\* profile without a block)
ProfileBlocks ==
    {<<Block(1, 1, 1, 0)>>, <<Block(1, 1, 1, 0), Block(1, 2, 2, 1)>>,
     <<Block(1, 2, 2, 1), Block(1, 1, 1, 0)>>,
     <<Block(1, 1, 1, 0), Block(1, 1, 1, 0)>>}

Profiles == [FileName : ProfileNames, Blocks : ProfileBlocks]

ProfileLists == UNION {[1..k -> Profiles] : k \in 0..MaxProfiles}

\* the file names of the records GroupCoverage is given: same host,
\* different owners, one owner equal to the host
GroupNames == {<<"a", "/", "b", "/", "a">>, <<"a", "/", "a", "/", "b">>}

\* the <<NumStmt, Count>> of a block an aggregator is given: covered
\* without statements, not covered, covered
StmtCounts == {<<0, 1>>, <<1, 0>>, <<1, 1>>}

\* the blocks of the records GroupCoverage is given
GroupBlocks == {Block(1, 1, x[1], x[2]) : x \in StmtCounts}

\* the file name of the records GetTotalCoverageBreakdown is given
TotalNames == {<<"a", "/", "b", "/", "a">>}

\* the blocks of the records GetTotalCoverageBreakdown is given; one of
\* the three line ranges ends before it starts
TotalBlocks ==
    {Block(l[1], l[2], x[1], x[2]) :
        l \in {<<1, 1>>, <<1, 2>>, <<3, 1>>}, x \in StmtCounts}

RECURSIVE ItemLists(_, _, _)
\* the record lists of at most n records and blocks together, each record
\* as Parse builds it
ItemLists(names, blocks, n) ==
    {<<>>} \cup UNION {
        LET rest == ItemLists(names, blocks, n - 1 - k)
            recs == {Record([FileName |-> f, Blocks |-> bs]) :
                        f \in names, bs \in [1..k -> blocks]}
        IN  {<<rec>> \o r : rec \in recs, r \in rest}
        : k \in 0..(n - 1)}

\* the specifications GroupCoverage is given: two of one name with
\* different key functions, two of one key function with different names
ParseGroups ==
    {[Name |-> "g1", KeyFunc |-> "host"], [Name |-> "g1", KeyFunc |-> "owner"],
     [Name |-> "g2", KeyFunc |-> "owner"]}

GroupLists == UNION {[1..k -> ParseGroups] : k \in 0..MaxGroups}

----------------------------------------------------------------------------
(* Specifications.                                                         *)

InitExtractVars == ident = <<>> /\ extracted = Pending

InitParseVars ==
    /\ profiles = <<>>
    /\ parserErr = FALSE
    /\ idx = 0
    /\ coverage = <<>>
    /\ parsed = Pending

InitAggVars ==
    /\ items = <<>>
    /\ groups = <<>>
    /\ grouped = Pending
    /\ breakdown = Pending

\* the extractor on every identifier of at most MaxLen characters
InitExtract ==
    /\ pc = "extract"
    /\ ident \in Strings(MaxLen)
    /\ extracted = Pending
    /\ InitParseVars
    /\ InitAggVars

NextExtract == ExtractIdentity

SpecExtract == InitExtract /\ [][NextExtract]_vars

\* Parse on every outcome of the external parser
InitParse ==
    /\ pc = "parse"
    /\ parserErr \in BOOLEAN
    /\ profiles \in (IF parserErr THEN {<<>>} ELSE ProfileLists)
    /\ idx = 0
    /\ coverage = <<>>
    /\ parsed = Pending
    /\ InitExtractVars
    /\ InitAggVars

NextParse == ParseProfiles \/ ParseLoop \/ ParseReturn

SpecParse == InitParse /\ [][NextParse]_vars

\* one call of one aggregator
InitAgg ==
    /\ pc \in {"group", "total"}
    /\ items \in (IF pc = "group" THEN ItemLists(GroupNames, GroupBlocks, MaxSize)
                  ELSE ItemLists(TotalNames, TotalBlocks, MaxSize))
    /\ groups \in (IF pc = "group" THEN GroupLists ELSE {<<>>})
    /\ grouped = Pending
    /\ breakdown = Pending
    /\ InitExtractVars
    /\ InitParseVars

NextAgg == GroupCoverageCall \/ GetTotalCoverageBreakdownCall

SpecAgg == InitAgg /\ [][NextAgg]_vars

----------------------------------------------------------------------------
(* What the properties are stated with.                                    *)

\* the positions of the slashes of s
Slashes(s) == {i \in 1..Len(s) : s[i] = "/"}

SlashCount(s) == Cardinality(Slashes(s))

\* the position of the n-th slash of s, which has that many
NthSlash(s, n) ==
    CHOOSE i \in Slashes(s) : Cardinality({j \in Slashes(s) : j <= i}) = n

\* s has a fourth segment and its third one is empty
EmptyThird(s) ==
    SlashCount(s) >= 3 /\ NthSlash(s, 3) = NthSlash(s, 2) + 1

\* host + "/" + owner + "/" + (repo + "/" if repo is non-empty) + path
Rejoined(e) ==
    e.host \o <<"/">> \o e.owner \o <<"/">>
        \o (IF e.repo # <<>> THEN e.repo \o <<"/">> ELSE <<>>) \o e.path

Matched(fileName) == SliceLen(FindStringSubmatch(fileName)) # 0

RECURSIVE SumOf(_)
\* the sum of the values of a function of finite domain
SumOf(f) ==
    IF DOMAIN f = {} THEN 0
    ELSE LET x == CHOOSE y \in DOMAIN f : TRUE
         IN  f[x] + SumOf([y \in DOMAIN f \ {x} |-> f[y]])

\* every block of every record, as <<record, block>> indices
Cells(its) ==
    UNION {{<<i, j>> : j \in 1..Len(its[i].Blocks)} : i \in 1..Len(its)}

BlockAt(its, c) == its[c[1]].Blocks[c[2]]

Hit(its, c) == BlockAt(its, c).Count > 0

StmtSum(its, cells) == SumOf([c \in cells |-> BlockAt(its, c).NumStmt])

LineSum(its, cells) ==
    SumOf([c \in cells |-> BlockAt(its, c).EndLine - BlockAt(its, c).StartLine + 1])

\* the blocks of the records that the key function kf maps to key
CellsOfKey(its, kf, key) ==
    {c \in Cells(its) : KeyFunc(kf, its[c[1]].FileName) = key}

\* two ratios are the same number
RatioEq(r, q) == r[1] * q[2] = q[1] * r[2]

\* a ratio lies in [0.0, 1.0]
InUnit(r) == r[1] * r[2] >= 0 /\ r[1] * r[2] <= r[2] * r[2]

\* a ratio is c / s, or 0.0 when s is 0
IsQuotient(r, c, s) == IF s = 0 THEN RatioEq(r, Zero) ELSE RatioEq(r, Div(c, s))

BucketEq(b1, b2) ==
    DOMAIN b1 = DOMAIN b2 /\ \A k \in DOMAIN b1 : RatioEq(b1[k], b2[k])

\* the blocks are as the data model has them
ValidBlocks(its) ==
    \A c \in Cells(its) :
        /\ BlockAt(its, c).NumStmt >= 0
        /\ BlockAt(its, c).Count >= 0
        /\ BlockAt(its, c).EndLine >= BlockAt(its, c).StartLine

\* specifications of one name have one key function
NoNameClash(gs) ==
    \A g, h \in 1..Len(gs) : gs[g].Name = gs[h].Name => gs[g].KeyFunc = gs[h].KeyFunc

\* the ratio of `key` in the bucket of specification g is C / S, or 0.0
RatioAsSummed(g, key) ==
    LET cells == CellsOfKey(items, groups[g].KeyFunc, key)
        S == StmtSum(items, cells)
        C == StmtSum(items, {c \in cells : Hit(items, c)})
        r == grouped.result[groups[g].Name][key]
    IN  /\ S > 0 => RatioEq(r, Div(C, S))
        /\ S = 0 => RatioEq(r, Zero)

AllRatiosAsSummed ==
    /\ grouped.err = NoError
    /\ \A g \in 1..Len(groups) :
          \A key \in DOMAIN grouped.result[groups[g].Name] : RatioAsSummed(g, key)

\* the bucket of specification g is the one a call with it alone returns
BucketAsAlone(g) ==
    BucketEq(grouped.result[groups[g].Name],
             GroupCoverage(items, <<groups[g]>>).result[groups[g].Name])

BucketNamesAreSpecNames ==
    DOMAIN grouped.result = {groups[g].Name : g \in 1..Len(groups)}

----------------------------------------------------------------------------
(* Properties.                                                             *)

\* C1, as amended: when the specifications of one name have one key
\* function, GroupCoverage returns no error and every ratio of every
\* specification's bucket is C/S when S > 0 and 0.0 when S = 0, S the sum of
\* NumStmt over the blocks of the records the key function maps to the key
\* and C that sum over the blocks with Count > 0.
C1_RatioIsCoveredOverStatements ==
    (pc = "grouped" /\ NoNameClash(groups)) => AllRatiosAsSummed

\* C1 as stated, for every sequence of specifications.
C1_AsStated == pc = "grouped" => AllRatiosAsSummed

\* C1's case: two records with blocks map to one key, whose ratio is 1/2.
C1_Witness ==
    /\ pc = "grouped"
    /\ Len(groups) = 1
    /\ Len(items) = 2
    /\ items[1].Blocks # <<>> /\ items[2].Blocks # <<>>
    /\ \E key \in DOMAIN grouped.result[groups[1].Name] :
          /\ KeyFunc(groups[1].KeyFunc, items[1].FileName) = key
          /\ KeyFunc(groups[1].KeyFunc, items[2].FileName) = key
          /\ RatioEq(grouped.result[groups[1].Name][key], <<1, 2>>)

\* C2: for every specification and every record, the key of the record's
\* file name is in the specification's bucket, and with 0.0 when the key's
\* statements sum to 0.
C2_EveryKeyPresent ==
    pc = "grouped" =>
        \A g \in 1..Len(groups) : \A i \in 1..Len(items) :
            LET key == KeyFunc(groups[g].KeyFunc, items[i].FileName)
                bucket == grouped.result[groups[g].Name]
            IN  /\ key \in DOMAIN bucket
                /\ StmtSum(items, CellsOfKey(items, groups[g].KeyFunc, key)) = 0
                       => RatioEq(bucket[key], Zero)

\* C3, as amended: the bucket names are the specifications' names, and
\* when the specifications of one name have one key function, each
\* specification's bucket is the one a call with it alone returns.
C3_BucketsIndependent ==
    pc = "grouped" =>
        /\ BucketNamesAreSpecNames
        /\ NoNameClash(groups) => \A g \in 1..Len(groups) : BucketAsAlone(g)

\* C3 as stated, for every sequence of specifications.
C3_AsStated ==
    pc = "grouped" =>
        /\ BucketNamesAreSpecNames
        /\ \A g \in 1..Len(groups) : BucketAsAlone(g)

\* C3's case: two specifications of different names and key functions, with
\* different buckets that are not empty.
C3_Witness ==
    /\ pc = "grouped"
    /\ Len(groups) = 2
    /\ groups[1].Name # groups[2].Name
    /\ groups[1].KeyFunc # groups[2].KeyFunc
    /\ grouped.result[groups[1].Name] # EmptyMap
    /\ grouped.result[groups[2].Name] # EmptyMap
    /\ ~BucketEq(grouped.result[groups[1].Name], grouped.result[groups[2].Name])

\* C4, as amended: when the extraction succeeds on an identifier that has
\* no empty third segment before a fourth one, the parts join back to the
\* identifier.
C4_RoundTrip ==
    (pc = "extracted" /\ extracted.err = NoError /\ ~EmptyThird(ident))
        => Rejoined(extracted) = ident

\* C4 as stated, for every identifier the extraction succeeds on.
C4_AsStated ==
    (pc = "extracted" /\ extracted.err = NoError) => Rejoined(extracted) = ident

\* C4's case: four segments, a repo, and an empty segment (the host).
C4_Witness ==
    /\ pc = "extracted"
    /\ extracted.err = NoError
    /\ extracted.repo # <<>>
    /\ extracted.host = <<>>
    /\ extracted.path # <<>>

\* C5: GetTotalCoverageBreakdown returns no error; its totals are the sums
\* over every block of the lines EndLine - StartLine + 1 and of NumStmt, its
\* covered totals those sums over the blocks with Count > 0, and its
\* percentages covered / total, or 0.0 when the total is 0.
C5_TotalsAreSums ==
    pc = "totalled" =>
        LET r == breakdown.result
            all == Cells(items)
            hit == {c \in all : Hit(items, c)}
        IN  /\ breakdown.err = NoError
            /\ r.TotalLines = LineSum(items, all)
            /\ r.TotalCoveredLines = LineSum(items, hit)
            /\ r.TotalStatements = StmtSum(items, all)
            /\ r.TotalCoveredStatements = StmtSum(items, hit)
            /\ IsQuotient(r.PercentByLines, LineSum(items, hit), LineSum(items, all))
            /\ IsQuotient(r.PercentByStatements, StmtSum(items, hit),
                          StmtSum(items, all))

\* C5's case: a record holds the same covered block twice, beside a block
\* that is not covered.
C5_Witness ==
    /\ pc = "totalled"
    /\ \E i \in 1..Len(items) :
          /\ Len(items[i].Blocks) >= 2
          /\ items[i].Blocks[1] = items[i].Blocks[2]
          /\ items[i].Blocks[1].Count > 0
          /\ items[i].Blocks[1].EndLine > items[i].Blocks[1].StartLine
    /\ breakdown.result.TotalLines > breakdown.result.TotalCoveredLines
    /\ breakdown.result.TotalCoveredLines >= 4

\* C6: when the external parser fails, or a profile's file name does not
\* match, Parse returns InvalidCoverageData and a nil list.
C6_FailureReturnsNothing ==
    (pc = "parsed"
        /\ (parserErr \/ \E i \in 1..Len(profiles) : ~Matched(profiles[i].FileName)))
        => parsed = Returned(TRUE, Nil, ErrInvalidCoverageData)

\* C6's case: the second profile's name does not match, after a record was
\* built for the first.
C6_Witness ==
    /\ pc = "parsed"
    /\ Len(profiles) = 2
    /\ Matched(profiles[1].FileName)
    /\ ~Matched(profiles[2].FileName)
    /\ Len(coverage) = 1
    /\ parsed.err = ErrInvalidCoverageData

\* C7: the extraction succeeds exactly on the identifiers with two or more
\* slashes, and fails with InvalidCoverageData on the others.
C7_MatchesIffTwoSlashes ==
    pc = "extracted" =>
        /\ SlashCount(ident) >= 2 => extracted.err = NoError
        /\ SlashCount(ident) < 2 => extracted.err = ErrInvalidCoverageData

\* C7's case: an identifier with exactly one slash is rejected.
C7_Witness ==
    /\ pc = "extracted"
    /\ SlashCount(ident) = 1
    /\ Len(ident) >= 3
    /\ extracted.err = ErrInvalidCoverageData

\* C8: on blocks with NumStmt >= 0, Count >= 0 and EndLine >= StartLine,
\* every ratio GroupCoverage returns lies in [0.0, 1.0], and the counts of
\* GetTotalCoverageBreakdown are not negative, the covered ones at most the
\* totals, and both percentages in [0.0, 1.0].
C8_RatiosInUnitInterval ==
    /\ (pc = "grouped" /\ ValidBlocks(items)) =>
          \A name \in DOMAIN grouped.result :
              \A key \in DOMAIN grouped.result[name] :
                  InUnit(grouped.result[name][key])
    /\ (pc = "totalled" /\ ValidBlocks(items)) =>
          LET r == breakdown.result
          IN  /\ r.TotalLines >= 0 /\ r.TotalCoveredLines >= 0
              /\ r.TotalStatements >= 0 /\ r.TotalCoveredStatements >= 0
              /\ r.TotalCoveredLines <= r.TotalLines
              /\ r.TotalCoveredStatements <= r.TotalStatements
              /\ InUnit(r.PercentByLines)
              /\ InUnit(r.PercentByStatements)

\* C8's case: valid blocks, some covered and some not, so that both
\* percentages lie strictly between 0.0 and 1.0.
C8_Witness ==
    /\ pc = "totalled"
    /\ ValidBlocks(items)
    /\ 0 < breakdown.result.TotalCoveredLines
    /\ breakdown.result.TotalCoveredLines < breakdown.result.TotalLines
    /\ 0 < breakdown.result.TotalCoveredStatements
    /\ breakdown.result.TotalCoveredStatements < breakdown.result.TotalStatements

\* C9: when the extraction succeeds, host is what precedes the first slash
\* and owner what lies between the first and the second; with exactly two
\* slashes repo is empty and path is what follows the second; with more,
\* repo is what lies between the second and the third and path is all that
\* follows the third.
C9_PartsAreSegments ==
    (pc = "extracted" /\ extracted.err = NoError) =>
        LET s1 == NthSlash(ident, 1)
            s2 == NthSlash(ident, 2)
        IN  /\ extracted.host = SubSeq(ident, 1, s1 - 1)
            /\ extracted.owner = SubSeq(ident, s1 + 1, s2 - 1)
            /\ IF SlashCount(ident) = 2
               THEN /\ extracted.repo = <<>>
                    /\ extracted.path = SubSeq(ident, s2 + 1, Len(ident))
               ELSE LET s3 == NthSlash(ident, 3)
                    IN  /\ extracted.repo = SubSeq(ident, s2 + 1, s3 - 1)
                        /\ extracted.path = SubSeq(ident, s3 + 1, Len(ident))

\* C9's case: four slashes, so that the path holds one, and no segment
\* before it is empty.
C9_Witness ==
    /\ pc = "extracted"
    /\ extracted.err = NoError
    /\ SlashCount(ident) = 4
    /\ extracted.host # <<>> /\ extracted.owner # <<>> /\ extracted.repo # <<>>
    /\ SlashCount(extracted.path) = 1

\* C10: when the external parser succeeds and every name matches, Parse
\* returns no error and one record per profile in the profiles' order, each
\* with the profile's name, the parts extracted from it and the profile's
\* blocks as they are; with no profile, an empty list and no error.
C10_OneRecordPerProfile ==
    (pc = "parsed" /\ ~parserErr
        /\ \A i \in 1..Len(profiles) : Matched(profiles[i].FileName))
        => /\ parsed.err = NoError
           /\ ~parsed.isNil
           /\ Len(parsed.list) = Len(profiles)
           /\ \A i \in 1..Len(profiles) :
                 LET e == Extract(profiles[i].FileName)
                 IN  parsed.list[i] =
                         Coverage(profiles[i].FileName, e.host, e.owner, e.repo,
                                  e.path, profiles[i].Blocks)

\* C10's case: two different profiles, the first with the same block
\* twice, both names matching.
C10_Witness ==
    /\ pc = "parsed"
    /\ parsed.err = NoError
    /\ Len(profiles) = 2
    /\ profiles[1].FileName # profiles[2].FileName
    /\ Len(profiles[1].Blocks) = 2
    /\ profiles[1].Blocks[1] = profiles[1].Blocks[2]
    /\ Len(parsed.list) = 2

====
